---- MODULE Spec2Model ----
(***************************************************************************)
(* A model of src/dex_parser.py: the DEX container decoder.                *)
(*                                                                         *)
(* Bytes are naturals in 0..255 and a buffer (Python bytes) is a sequence  *)
(* of them; Python offsets are 0-based, sequence indices 1-based.          *)
(* A Python int is unbounded, while TLC's integers are 32 bits wide, so a  *)
(* Python int that comes out of the buffer is kept as a PyInt: the         *)
(* sequence of its base-256 digits, least significant first, without       *)
(* leading (most significant) zero digits.  Two PyInts are the same number *)
(* exactly when they are the same sequence.                                *)
(***************************************************************************)
EXTENDS Integers, Sequences, FiniteSets, TLC

VARIABLES
    data,     \* the input buffer handed to the constructors
    pc,       \* where the run stands: "new", then a name for each step taken
    header,   \* outcome of HeaderItem(data), or Pending
    parser,   \* outcome of DexParser(data), or Pending
    orig,     \* the buffer as first given (before any corruption)
    hit,      \* 0-based position of the corrupted byte, -1 when none
    uleb,     \* outcome of Uleb128(data) followed by int(), or Pending
    arg,      \* what a call is given besides the buffer (a record, a position)
    out       \* outcome of the last resolver or decoder call, or Pending

vars == <<data, pc, header, parser, orig, hit, uleb, arg, out>>

Pending == [err |-> "pending"]

Raise(kind, at) == [err |-> kind, check |-> at]

Min(a, b) == IF a < b THEN a ELSE b

Max(a, b) == IF a > b THEN a ELSE b

----------------------------------------------------------------------------
(* Python slices and integers *)

\* data[a : b] for 0 <= a, 0 <= b: clipped to the buffer, never an error
PySlice(s, a, b) == SubSeq(s, a + 1, Min(b, Len(s)))

\* data[a:]
PyFrom(s, a) == SubSeq(s, a + 1, Len(s))

RECURSIVE StripZeros(_)
StripZeros(s) ==
    IF s = <<>> THEN <<>>
    ELSE IF s[Len(s)] = 0 THEN StripZeros(SubSeq(s, 1, Len(s) - 1))
    ELSE s

\* int.from_bytes(s, "little"); the empty slice gives 0
IntFromBytes(s) == StripZeros(s)

\* the PyInt of a natural the model itself holds (len(data), a constant)
RECURSIVE IntOfNat(_)
IntOfNat(n) == IF n = 0 THEN <<>> ELSE <<n % 256>> \o IntOfNat(n \div 256)

\* the PyInt hi * 2^16 + lo of a 32-bit constant written as two 16-bit halves
IntOfHalves(hi, lo) ==
    StripZeros(<<lo % 256, lo \div 256, hi % 256, hi \div 256>>)

RECURSIVE DigitsValue(_, _)
DigitsValue(x, i) == IF i > Len(x) THEN 0 ELSE x[i] + 256 * DigitsValue(x, i + 1)

\* A PyInt as a natural for offset arithmetic.  Values of 2^30 and more are
\* held at 2^30: every buffer of the model is far shorter, so such an offset
\* lies past the end of the buffer either way.
NatOf(x) ==
    IF Len(x) > 4 \/ (Len(x) = 4 /\ x[4] >= 64) THEN 2^30 ELSE DigitsValue(x, 1)

\* range(start, stop, step) for step > 0
RECURSIVE Range(_, _, _)
Range(start, stop, step) ==
    IF start >= stop THEN <<>> ELSE <<start>> \o Range(start + step, stop, step)

----------------------------------------------------------------------------
(* Constants of the format *)

MAGIC == <<100, 101, 120, 10>>

ENDIAN_CONSTANT == IntOfHalves(4660, 22136)

REVERSE_ENDIAN_CONSTANT == IntOfHalves(30806, 13330)

NO_INDEX == IntOfHalves(65535, 65535)

HEADER_SIZE == 112

----------------------------------------------------------------------------
(* Library functions the header check calls *)

\* the sum of (w0 + w * i) * (s[i] + c) for i in lo..hi, by halving
RECURSIVE WeightedSum(_, _, _, _, _, _)
WeightedSum(s, lo, hi, w0, w, c) ==
    IF lo > hi THEN 0
    ELSE IF lo = hi THEN (w0 + w * lo) * (s[lo] + c)
    ELSE LET mid == (lo + hi) \div 2
         IN  WeightedSum(s, lo, mid, w0, w, c) + WeightedSum(s, mid + 1, hi, w0, w, c)

\* zlib.adler32: with a_0 = 1, a_i = a_(i-1) + s[i] and b = a_1 + ... + a_n,
\* both mod 65521, the checksum is b * 65536 + a_n.  Summed in closed form:
\* a_n = 1 + sum of s[i], b = n + sum of (n + 1 - i) * s[i].
adler32(s) ==
    LET n == Len(s)
        a == (1 + WeightedSum(s, 1, n, 1, 0, 0)) % 65521
        b == (n + WeightedSum(s, 1, n, n + 1, -1, 0)) % 65521
    IN  IntFromBytes(<<a % 256, a \div 256, b % 256, b \div 256>>)

\* hashlib.sha1(s).digest(): a 20-byte digest.  SHA-1 itself is not computed;
\* the digest is an abstraction with the one property the checks rely on:
\* changing one byte of s changes the digest (position-weighted sum modulo a
\* prime larger than any position and any byte difference).
sha1(s) ==
    LET h == WeightedSum(s, 1, Len(s), 0, 1, 1) % 65521
    IN  <<h % 256, h \div 256, Len(s) % 256>> \o [k \in 1..17 |-> 218]

\* bytes.decode("utf8") succeeds: strict UTF-8 (no overlong forms, no
\* surrogates, nothing above U+10FFFF, no truncated sequence)
IsCont(s, i) == i <= Len(s) /\ s[i] \in 128..191

RECURSIVE Utf8ValidFrom(_, _)
Utf8ValidFrom(s, i) ==
    IF i > Len(s) THEN TRUE
    ELSE LET b == s[i] IN
        IF b < 128 THEN Utf8ValidFrom(s, i + 1)
        ELSE IF b \in 194..223
            THEN IsCont(s, i + 1) /\ Utf8ValidFrom(s, i + 2)
        ELSE IF b \in 224..239
            THEN /\ IsCont(s, i + 1)
                 /\ (b = 224 => s[i + 1] >= 160)
                 /\ (b = 237 => s[i + 1] <= 159)
                 /\ IsCont(s, i + 2)
                 /\ Utf8ValidFrom(s, i + 3)
        ELSE IF b \in 240..244
            THEN /\ IsCont(s, i + 1)
                 /\ (b = 240 => s[i + 1] >= 144)
                 /\ (b = 244 => s[i + 1] <= 143)
                 /\ IsCont(s, i + 2)
                 /\ IsCont(s, i + 3)
                 /\ Utf8ValidFrom(s, i + 4)
        ELSE FALSE

Utf8Valid(s) == Utf8ValidFrom(s, 1)

\* the text of a valid UTF-8 byte string, as its sequence of code points
RECURSIVE Utf8DecodeFrom(_, _)
Utf8DecodeFrom(s, i) ==
    IF i > Len(s) THEN <<>>
    ELSE LET b == s[i] IN
        IF b < 128 THEN <<b>> \o Utf8DecodeFrom(s, i + 1)
        ELSE IF b < 224
            THEN <<(b % 32) * 64 + (s[i + 1] % 64)>> \o Utf8DecodeFrom(s, i + 2)
        ELSE IF b < 240
            THEN <<(b % 16) * 4096 + (s[i + 1] % 64) * 64 + (s[i + 2] % 64)>>
                 \o Utf8DecodeFrom(s, i + 3)
        ELSE <<(b % 8) * 262144 + (s[i + 1] % 64) * 4096
                 + (s[i + 2] % 64) * 64 + (s[i + 3] % 64)>>
             \o Utf8DecodeFrom(s, i + 4)

Utf8Decode(s) == Utf8DecodeFrom(s, 1)

----------------------------------------------------------------------------
(* HeaderItem.__init__ *)

\* faulty variant: only the first of the two tags is recognized
EndiannessOfOneTag(endian_tag) ==
    IF endian_tag = ENDIAN_CONSTANT THEN "big" ELSE ""

\* the endianness recorded for a tag, "" when the tag is not recognized
EndiannessOf(endian_tag) ==
    IF endian_tag = ENDIAN_CONSTANT THEN "big"
    ELSE IF endian_tag = REVERSE_ENDIAN_CONSTANT THEN "little"
    ELSE ""

\* the attributes set once every check has passed
HeaderFields(d) ==
    [err             |-> "none",
     check           |-> "none",
     version         |-> Utf8Decode(PySlice(d, 4, 7)),
     checksum        |-> adler32(PyFrom(d, 12)),
     signature       |-> sha1(PyFrom(d, 32)),
     file_size       |-> Len(d),
     endianness      |-> EndiannessOf(IntFromBytes(PySlice(d, 40, 44))),
     link_size       |-> IntFromBytes(PySlice(d, 44, 48)),
     link_off        |-> IntFromBytes(PySlice(d, 48, 52)),
     map_off         |-> IntFromBytes(PySlice(d, 52, 56)),
     string_ids_size |-> IntFromBytes(PySlice(d, 56, 60)),
     string_ids_off  |-> IntFromBytes(PySlice(d, 60, 64)),
     type_ids_size   |-> IntFromBytes(PySlice(d, 64, 68)),
     type_ids_off    |-> IntFromBytes(PySlice(d, 68, 72)),
     proto_ids_size  |-> IntFromBytes(PySlice(d, 72, 76)),
     proto_ids_off   |-> IntFromBytes(PySlice(d, 76, 80)),
     field_ids_size  |-> IntFromBytes(PySlice(d, 80, 84)),
     field_ids_off   |-> IntFromBytes(PySlice(d, 84, 88)),
     method_ids_size |-> IntFromBytes(PySlice(d, 88, 92)),
     method_ids_off  |-> IntFromBytes(PySlice(d, 92, 96)),
     class_defs_size |-> IntFromBytes(PySlice(d, 96, 100)),
     class_defs_off  |-> IntFromBytes(PySlice(d, 100, 104)),
     data_size       |-> IntFromBytes(PySlice(d, 104, 108)),
     data_off        |-> IntFromBytes(PySlice(d, 108, 112))]

\* faulty variant: the computed checksum compared with itself, not with bytes [8, 12)
ChecksumComparedWithItself(d) == adler32(PyFrom(d, 12)) = adler32(PyFrom(d, 12))

ChecksumMatches(d) == adler32(PyFrom(d, 12)) = IntFromBytes(PySlice(d, 8, 12))

SignatureMatches(d) == sha1(PyFrom(d, 32)) = PySlice(d, 12, 32)

\* faulty variant: the declared size taken as the file size, not compared with len(data)
FileSizeTakenAsDeclared(d) ==
    IntFromBytes(PySlice(d, 32, 36)) = IntFromBytes(PySlice(d, 32, 36))

FileSizeMatches(d) == IntOfNat(Len(d)) = IntFromBytes(PySlice(d, 32, 36))

HeaderSizeMatches(d) == IntFromBytes(PySlice(d, 36, 40)) = IntOfNat(HEADER_SIZE)

HeaderItem(d) ==
    IF PySlice(d, 0, 4) # MAGIC THEN Raise("BadDexFileError", "magic")
    ELSE IF ~Utf8Valid(PySlice(d, 4, 7)) THEN Raise("UnicodeDecodeError", "version")
    ELSE IF Len(d) < 8 THEN Raise("IndexError", "padding")
    ELSE IF d[8] # 0 THEN Raise("BadDexFileError", "padding")
    ELSE IF ~ChecksumMatches(d) THEN Raise("BadDexFileError", "checksum")
    ELSE IF ~SignatureMatches(d) THEN Raise("BadDexFileError", "signature")
    ELSE IF ~FileSizeMatches(d) THEN Raise("BadDexFileError", "file_size")
    ELSE IF ~HeaderSizeMatches(d) THEN Raise("BadDexFileError", "header_size")
    ELSE IF EndiannessOf(IntFromBytes(PySlice(d, 40, 44))) = ""
        THEN Raise("BadDexFileError", "endian_tag")
    ELSE HeaderFields(d)

----------------------------------------------------------------------------
(* The records of the tables *)

\* TypeCode(value) succeeds: value is a member of the enumeration
IsTypeCode(v) ==
    v \in (0..8) \cup (4096..4099) \cup (8192..8198) \cup {61440}

\* AccessFlag(value) succeeds: enum.Flag refuses a value with a bit that is
\* no member (bit 15, and every bit from bit 18 up)
IsAccessFlag(x) ==
    /\ Len(x) <= 3
    /\ (Len(x) = 3 => x[3] <= 3)
    /\ (Len(x) >= 2 => x[2] < 128)

MapItem(rec) ==
    [type   |-> NatOf(IntFromBytes(PySlice(rec, 0, 2))),
     unused |-> IntFromBytes(PySlice(rec, 2, 4)),
     size   |-> IntFromBytes(PySlice(rec, 4, 8)),
     offset |-> IntFromBytes(PySlice(rec, 8, 12))]

StringIdItem(rec) == [string_data_off |-> IntFromBytes(rec)]

TypeIdItem(rec) == [descriptor_idx |-> IntFromBytes(rec)]

ProtoIdItem(rec) ==
    [shorty_idx      |-> IntFromBytes(PySlice(rec, 0, 4)),
     return_type_idx |-> IntFromBytes(PySlice(rec, 4, 8)),
     parameters_off  |-> IntFromBytes(PySlice(rec, 8, 12))]

FieldIdItem(rec) ==
    [class_idx |-> IntFromBytes(PySlice(rec, 0, 2)),
     type_idx  |-> IntFromBytes(PySlice(rec, 2, 4)),
     name_idx  |-> IntFromBytes(PySlice(rec, 4, 8))]

MethodIdItem(rec) ==
    [class_idx |-> IntFromBytes(PySlice(rec, 0, 2)),
     proto_idx |-> IntFromBytes(PySlice(rec, 2, 4)),
     name_idx  |-> IntFromBytes(PySlice(rec, 4, 8))]

ClassDefItem(rec) ==
    [class_idx         |-> IntFromBytes(PySlice(rec, 0, 4)),
     access_flags      |-> IntFromBytes(PySlice(rec, 4, 8)),
     superclass_idx    |-> IntFromBytes(PySlice(rec, 8, 12)),
     interfaces_off    |-> IntFromBytes(PySlice(rec, 12, 16)),
     source_file_idx   |-> IntFromBytes(PySlice(rec, 16, 20)),
     annotations_off   |-> IntFromBytes(PySlice(rec, 20, 24)),
     class_data_off    |-> IntFromBytes(PySlice(rec, 24, 28)),
     static_values_off |-> IntFromBytes(PySlice(rec, 28, 32))]

----------------------------------------------------------------------------
(* MapList.__init__ and DexParser.__init__ *)

\* how many of the first n records of the given stride, the first at byte
\* `first`, start inside a buffer of `len` bytes
StartInside(n, first, stride, len) ==
    Min(n, (Max(len - first, 0) + stride - 1) \div stride)

\* MapList(d): the list comprehension stops at the first MapItem whose type is
\* no TypeCode.  A record that starts past the end of d is built from the
\* empty slice, whose type reads 0 (TYPE_HEADER_ITEM), so only the records
\* that start inside d can raise.
MapList(d) ==
    LET size == IntFromBytes(PySlice(d, 0, 4))
        n    == NatOf(size)
    IN  IF \E k \in 0..(StartInside(n, 4, 12, Len(d)) - 1) :
               ~IsTypeCode(NatOf(IntFromBytes(PySlice(d, 4 + 12 * k, 6 + 12 * k))))
        THEN Raise("ValueError", "map_item")
        ELSE [err  |-> "none",
              size |-> size,
              list |-> [k \in 1..n |-> MapItem(PySlice(d, 12 * k - 8, 12 * k + 4))]]

\* faulty variant: the stop of the range is one record too far
RecordsOneTooMany(d, start, size, stride) ==
    LET offs == Range(NatOf(start), NatOf(start) + (NatOf(size) + 1) * stride, stride)
    IN  [k \in 1..Len(offs) |-> PySlice(d, offs[k], offs[k] + stride)]

\* [d[off : off + stride] for off in range(start, start + size * stride, stride)]
Records(d, start, size, stride) ==
    LET offs == Range(NatOf(start), NatOf(start) + NatOf(size) * stride, stride)
    IN  [k \in 1..Len(offs) |-> PySlice(d, offs[k], offs[k] + stride)]

StringIds(d, h) ==
    LET recs == Records(d, h.string_ids_off, h.string_ids_size, 4)
    IN  [k \in 1..Len(recs) |-> StringIdItem(recs[k])]

TypeIds(d, h) ==
    LET recs == Records(d, h.type_ids_off, h.type_ids_size, 4)
    IN  [k \in 1..Len(recs) |-> TypeIdItem(recs[k])]

\* faulty variant: the prototype table sliced with the 8-byte stride of its neighbours
ProtoIdsStride8(d, h) ==
    LET offs == Range(NatOf(h.proto_ids_off),
                      NatOf(h.proto_ids_off) + NatOf(h.proto_ids_size) * 8, 8)
    IN  [k \in 1..Len(offs) |-> ProtoIdItem(PySlice(d, offs[k], offs[k] + 8))]

ProtoIds(d, h) ==
    LET recs == Records(d, h.proto_ids_off, h.proto_ids_size, 12)
    IN  [k \in 1..Len(recs) |-> ProtoIdItem(recs[k])]

FieldIds(d, h) ==
    LET recs == Records(d, h.field_ids_off, h.field_ids_size, 8)
    IN  [k \in 1..Len(recs) |-> FieldIdItem(recs[k])]

MethodIds(d, h) ==
    LET recs == Records(d, h.method_ids_off, h.method_ids_size, 8)
    IN  [k \in 1..Len(recs) |-> MethodIdItem(recs[k])]

ClassDefs(d, h) ==
    LET recs == Records(d, h.class_defs_off, h.class_defs_size, 32)
    IN  [k \in 1..Len(recs) |-> ClassDefItem(recs[k])]

DexParser(d) ==
    LET h == HeaderItem(d) IN
    IF h.err # "none" THEN h
    ELSE LET m == MapList(PyFrom(d, NatOf(h.map_off))) IN
    IF m.err # "none" THEN m
    ELSE LET class_defs == ClassDefs(d, h) IN
    IF \E k \in 1..Len(class_defs) : ~IsAccessFlag(class_defs[k].access_flags)
    THEN Raise("ValueError", "class_def")
    ELSE [err        |-> "none",
          check      |-> "none",
          full_data  |-> d,
          header     |-> h,
          map_list   |-> m,
          string_ids |-> StringIds(d, h),
          type_ids   |-> TypeIds(d, h),
          proto_ids  |-> ProtoIds(d, h),
          field_ids  |-> FieldIds(d, h),
          method_ids |-> MethodIds(d, h),
          class_defs |-> class_defs]

----------------------------------------------------------------------------
(* Input buffers.  What follows builds the buffers the constructors are run  *)
(* on; it models no code.  A buffer is a container image: the 112-byte       *)
(* header, an area of id records, one class-def record and a map list, cut   *)
(* to a chosen length, with the integrity fields computed over what is left  *)
(* so that every check can pass or fail on its own.                          *)

\* largest count a table of an input declares
MaxCount == 2

\* bytes in the area of id records that follows the header
IdsLen == 24

ClassDefOff == HEADER_SIZE + IdsLen

MapOff == ClassDefOff + 32

FullLen == MapOff + 28

LE32(n) == <<n % 256, (n \div 256) % 256, (n \div 65536) % 256, n \div 16777216>>

Pad4(x) == x \o [k \in 1..(4 - Len(x)) |-> 0]

Take(s, n) == SubSeq(s, 1, Min(Max(n, 0), Len(s)))

IdsArea == [k \in 1..IdsLen |-> (((HEADER_SIZE + k) * 3) % 7) + 1]

ClassDefArea(flags) ==
    LE32(1) \o LE32(flags) \o Pad4(NO_INDEX) \o LE32(0)
    \o Pad4(NO_INDEX) \o LE32(0) \o LE32(0) \o LE32(0)

MapArea(type) ==
    LE32(2) \o <<type % 256, type \div 256, 0, 0>> \o LE32(1) \o LE32(0)
            \o <<0, 16, 0, 0>> \o LE32(1) \o LE32(MapOff)

DefectKinds ==
    {"magic", "version", "padding", "checksum", "signature", "file_size",
     "header_size", "endian_tag"}

TagBytes(p) ==
    IF "endian_tag" \in p.defects THEN <<1, 2, 3, 4>>
    ELSE IF p.tag = "big" THEN Pad4(ENDIAN_CONSTANT)
    ELSE Pad4(REVERSE_ENDIAN_CONSTANT)

\* bytes [32, FullLen) of the image before it is cut to p.len
Tail32(p) ==
    LE32(IF "file_size" \in p.defects THEN p.len + 1 ELSE p.len)
    \o LE32(IF "header_size" \in p.defects THEN HEADER_SIZE + 1 ELSE HEADER_SIZE)
    \o TagBytes(p)
    \o LE32(0) \o LE32(0) \o LE32(p.map_off)
    \o LE32(p.tables[1][1]) \o LE32(p.tables[1][2])
    \o LE32(p.tables[2][1]) \o LE32(p.tables[2][2])
    \o LE32(p.tables[3][1]) \o LE32(p.tables[3][2])
    \o LE32(p.tables[4][1]) \o LE32(p.tables[4][2])
    \o LE32(p.tables[5][1]) \o LE32(p.tables[5][2])
    \o LE32(p.tables[6][1]) \o LE32(p.tables[6][2])
    \o LE32(FullLen - HEADER_SIZE) \o LE32(HEADER_SIZE)
    \o IdsArea \o ClassDefArea(p.flags) \o MapArea(p.map_type)

Spoil(s) == IF s = <<>> THEN s ELSE [s EXCEPT ![1] = (s[1] + 1) % 256]

Build(p) ==
    LET part32 == Take(Tail32(p), p.len - 32)
        sig    == IF "signature" \in p.defects THEN Spoil(sha1(part32))
                  ELSE sha1(part32)
        part12 == Take(sig \o part32, p.len - 12)
        sum    == Pad4(adler32(part12))
        part8  == (IF "checksum" \in p.defects THEN Spoil(sum) ELSE sum) \o part12
        magic  == IF "magic" \in p.defects THEN <<100, 101, 121, 10>> ELSE MAGIC
        vers   == IF "version" \in p.defects THEN <<48, 255, 53>> ELSE <<48, 51, 53>>
        pad    == IF "padding" \in p.defects THEN <<1>> ELSE <<0>>
    IN  Take(magic \o vers \o pad \o part8, p.len)

NoTables == [t \in 1..6 |-> <<0, 0>>]

\* every subset of the header defects, on a full image with empty tables
DefectInputs ==
    {[len |-> FullLen, defects |-> ds, tag |-> tg, map_off |-> FullLen,
      tables |-> NoTables, flags |-> 1, map_type |-> 0] :
        ds \in SUBSET DefectKinds, tg \in {"big", "little"}}

\* every length from the empty buffer to the whole header
TruncatedInputs ==
    {[len |-> n, defects |-> ds, tag |-> tg, map_off |-> mo,
      tables |-> NoTables, flags |-> 1, map_type |-> 0] :
        n \in 0..HEADER_SIZE, ds \in {{}, {"version"}},
        tg \in {"big", "little"}, mo \in {HEADER_SIZE, 0}}

OffChoices ==
    {0, HEADER_SIZE, HEADER_SIZE + 4, ClassDefOff, FullLen - 2, FullLen, FullLen + 8}

MapChoices == {<<FullLen, 0>>, <<MapOff, 0>>, <<MapOff, 9>>, <<0, 0>>}

\* one table with 0..MaxCount records at a chosen offset, the others empty
LayoutInputs ==
    {[len |-> FullLen, defects |-> {}, tag |-> "big", map_off |-> mp[1],
      tables |-> [t \in 1..6 |-> IF t = focus THEN <<cnt, off>> ELSE <<0, other>>],
      flags |-> fl, map_type |-> mp[2]] :
        focus \in 1..6, cnt \in 0..MaxCount, off \in OffChoices,
        other \in {0, HEADER_SIZE}, mp \in MapChoices, fl \in {1, 32768}}

Inputs == DefectInputs \cup TruncatedInputs \cup LayoutInputs

----------------------------------------------------------------------------
(* Specification Spec: the two constructors run on an input buffer *)

Init ==
    /\ \E p \in Inputs : data = Build(p)
    /\ orig = data
    /\ pc = "new"
    /\ header = Pending
    /\ parser = Pending
    /\ hit = -1
    /\ uleb = Pending
    /\ arg = <<>>
    /\ out = Pending

\* HeaderItem(data)
NewHeaderItem ==
    /\ pc = "new"
    /\ header' = HeaderItem(data)
    /\ pc' = "header"
    /\ UNCHANGED <<data, parser, orig, hit, uleb, arg, out>>

\* DexParser(data)
NewDexParser ==
    /\ pc = "header"
    /\ parser' = DexParser(data)
    /\ pc' = "parsed"
    /\ UNCHANGED <<data, header, orig, hit, uleb, arg, out>>

Next == NewHeaderItem \/ NewDexParser

Spec == Init /\ [][Next]_vars

----------------------------------------------------------------------------
(* Specification SpecCorrupt: a buffer that decodes, then one byte of it  *)
(* from position 8 on is changed and the constructors run again           *)

\* what is added (mod 256) to the byte that is corrupted
CorruptDeltas == {1, 128, 255}

\* images that decode: one record in one table, with or without a map list
CorruptBases ==
    {[len |-> FullLen, defects |-> {}, tag |-> "big", map_off |-> mp[1],
      tables |-> [t \in 1..6 |-> IF t = focus[1] THEN <<1, focus[2]>> ELSE <<0, 0>>],
      flags |-> 1, map_type |-> mp[2]] :
        focus \in {<<1, HEADER_SIZE>>, <<3, HEADER_SIZE + 4>>, <<6, ClassDefOff>>},
        mp \in {<<FullLen, 0>>, <<MapOff, 0>>}}

InitCorrupt ==
    /\ \E p \in CorruptBases : data = Build(p)
    /\ orig = data
    /\ pc = "new"
    /\ header = Pending
    /\ parser = Pending
    /\ hit = -1
    /\ uleb = Pending
    /\ arg = <<>>
    /\ out = Pending

CorruptByte ==
    /\ pc = "parsed"
    /\ parser.err = "none"
    /\ hit = -1
    /\ \E pos \in 8..(Len(data) - 1), delta \in CorruptDeltas :
          /\ data' = [data EXCEPT ![pos + 1] = (@ + delta) % 256]
          /\ hit' = pos
    /\ pc' = "new"
    /\ header' = Pending
    /\ parser' = Pending
    /\ UNCHANGED <<orig, uleb, arg, out>>

NextCorrupt == NewHeaderItem \/ NewDexParser \/ CorruptByte

SpecCorrupt == InitCorrupt /\ [][NextCorrupt]_vars

----------------------------------------------------------------------------
(* Uleb128 *)

\* the loop of Uleb128.__init__ from index idx on: the size it leaves (0 when
\* the bytes run out first), or -1 when it raises at idx = 4
RECURSIVE UlebScan(_, _)
UlebScan(d, idx) ==
    IF idx >= Len(d) THEN 0
    ELSE IF d[idx + 1] < 128 THEN idx + 1
    ELSE IF idx = 4 THEN -1
    ELSE UlebScan(d, idx + 1)

Uleb128(d) ==
    LET size == UlebScan(d, 0)
    IN  IF size = -1 THEN Raise("BadDexFileError", "uleb128")
        ELSE [err |-> "none", check |-> "none", size |-> size,
              data |-> PySlice(d, 0, size)]

\* the PyInt x * m + carry, for small naturals m and carry
RECURSIVE MulAdd(_, _, _)
MulAdd(x, m, carry) ==
    IF x = <<>> THEN IntOfNat(carry)
    ELSE LET t == x[1] * m + carry
         IN  StripZeros(<<t % 256>> \o MulAdd(Tail(x), m, t \div 256))

\* faulty variant: the value shifted by 8 bits a byte, not 7
RECURSIVE UlebValueFromShift8(_, _)
UlebValueFromShift8(s, i) ==
    IF i > Len(s) THEN <<>>
    ELSE MulAdd(UlebValueFromShift8(s, i + 1), 256, s[i] % 128)

\* Uleb128.__int__: over reversed(self.data), value = (value << 7) | (b & 0x7f);
\* UlebValueFrom(s, i) is the value once the bytes s[Len(s)] down to s[i] are in
RECURSIVE UlebValueFrom(_, _)
UlebValueFrom(s, i) ==
    IF i > Len(s) THEN <<>>
    ELSE MulAdd(UlebValueFrom(s, i + 1), 128, s[i] % 128)

\* faulty variant: the bytes taken in buffer order, not reversed
RECURSIVE UlebValueForward(_, _)
UlebValueForward(s, i) ==
    IF i < 1 THEN <<>>
    ELSE MulAdd(UlebValueForward(s, i - 1), 128, s[i] % 128)

Uleb128IntForward(s) == UlebValueForward(s, Len(s))

Uleb128Int(s) == UlebValueFrom(s, 1)

----------------------------------------------------------------------------
(* Specification SpecUleb: Uleb128(data), then int() of the result *)

\* longest byte string handed to Uleb128
MaxUlebLen == 6

UlebBytes == {0, 1, 127, 128, 255}

UlebInputs == UNION {[1..n -> UlebBytes] : n \in 0..MaxUlebLen}

InitUleb ==
    /\ data \in UlebInputs
    /\ orig = data
    /\ pc = "new"
    /\ header = Pending
    /\ parser = Pending
    /\ hit = -1
    /\ uleb = Pending
    /\ arg = <<>>
    /\ out = Pending

\* Uleb128(data)
NewUleb128 ==
    /\ pc = "new"
    /\ uleb' = Uleb128(data)
    /\ pc' = "decoded"
    /\ UNCHANGED <<data, header, parser, orig, hit, arg, out>>

\* int(uleb)
UlebToInt ==
    /\ pc = "decoded"
    /\ uleb.err = "none"
    /\ uleb' = [err |-> "none", check |-> "none", size |-> uleb.size,
                data |-> uleb.data, value |-> Uleb128Int(uleb.data)]
    /\ pc' = "converted"
    /\ UNCHANGED <<data, header, parser, orig, hit, arg, out>>

NextUleb == NewUleb128 \/ UlebToInt

SpecUleb == InitUleb /\ [][NextUleb]_vars

----------------------------------------------------------------------------
(* Claims about the header (Spec, SpecCorrupt) *)

\* C1: on every buffer, header construction either returns a Header or fails
\* with BadDexFileError; it fails with no other error kind.
C1_OnlyStructuralError ==
    header # Pending => header.err \in {"none", "BadDexFileError"}

\* C2: once one byte at a position in [8, end) of a buffer that decoded is
\* changed to another value, both constructors fail with BadDexFileError.
C2_CorruptionDetected ==
    hit >= 8 =>
        /\ data # orig
        /\ (header # Pending => header.err = "BadDexFileError")
        /\ (parser # Pending => parser.err = "BadDexFileError")

C2_Witness ==
    /\ hit >= 32
    /\ pc = "parsed"
    /\ parser.err = "BadDexFileError"

\* the buffer holds bytes [32, 36) and they are its own length, little-endian
DeclaredSizeIsLength(d) ==
    /\ Len(d) >= 36
    /\ SubSeq(d, 33, 36) = LE32(Len(d))

\* C3: whenever a constructor succeeds, header.file_size is the length of the
\* buffer and is the little-endian value stored at bytes [32, 36); a buffer
\* whose declared size is not its length yields no Header.
C3_FileSizeIsLength ==
    /\ header.err = "none" =>
          header.file_size = Len(data) /\ DeclaredSizeIsLength(data)
    /\ parser.err = "none" =>
          parser.header.file_size = Len(data) /\ DeclaredSizeIsLength(data)

C3_Witness ==
    /\ parser.err = "none"
    /\ parser.header.file_size = FullLen
    /\ Len(parser.string_ids) > 0

\* the buffer holds bytes [40, 44) and they are these four
TagBytesAre(d, four) == Len(d) >= 44 /\ SubSeq(d, 41, 44) = four

\* C4: when header construction gets past the checks before the endianness tag
\* (magic and version text, padding, checksum, signature, file size, header
\* size), it succeeds exactly when bytes [40, 44) hold 0x12345678 or
\* 0x78563412 little-endian; the two are recorded as different endianness
\* values, and any other tag fails with BadDexFileError.
C4_EndianTag ==
    (header # Pending /\ header.check \in {"none", "endian_tag"}) =>
        /\ header.err = "none" <=>
              \/ TagBytesAre(data, <<120, 86, 52, 18>>)
              \/ TagBytesAre(data, <<18, 52, 86, 120>>)
        /\ header.err # "none" => header.err = "BadDexFileError"
        /\ TagBytesAre(data, <<120, 86, 52, 18>>) => header.endianness = "big"
        /\ TagBytesAre(data, <<18, 52, 86, 120>>) => header.endianness = "little"

C4_Witness ==
    /\ header.err = "none"
    /\ header.endianness = "little"
    /\ TagBytesAre(data, <<18, 52, 86, 120>>)

----------------------------------------------------------------------------
(* Claims about the tables (Spec) *)

Zero == IntOfNat(0)

AllCountsZero(h) ==
    /\ h.string_ids_size = Zero
    /\ h.type_ids_size = Zero
    /\ h.proto_ids_size = Zero
    /\ h.field_ids_size = Zero
    /\ h.method_ids_size = Zero
    /\ h.class_defs_size = Zero

AllTablesEmpty(r) ==
    /\ r.string_ids = <<>>
    /\ r.type_ids = <<>>
    /\ r.proto_ids = <<>>
    /\ r.field_ids = <<>>
    /\ r.method_ids = <<>>
    /\ r.class_defs = <<>>

\* C5 as first stated: a container whose header passes every check and
\* declares count 0 for all six tables decodes without error, to six empty
\* tables, whatever the six offsets are.
C5_EmptyContainerDecodes ==
    (pc = "parsed" /\ header.err = "none" /\ AllCountsZero(header)) =>
        parser.err = "none" /\ AllTablesEmpty(parser)

\* the two type bytes of the k-th map item (k from 0) of the map list at off,
\* as far as the buffer holds them
MapItemTypeBytes(d, off, k) == PySlice(d, off + 4 + 12 * k, off + 6 + 12 * k)

\* the map list at the header's map_off is sound: either map_off is at or
\* past the end of the buffer (the list reads as empty), or the count and
\* every item it declares lie inside the buffer and every item carries a type
\* code of the enumeration
MapListSound(d, h) ==
    LET off == NatOf(h.map_off)
        n   == NatOf(IntFromBytes(PySlice(d, off, off + 4)))
    IN  \/ off >= Len(d)
        \/ /\ n <= Len(d)
           /\ off + 4 + 12 * n <= Len(d)
           /\ \A k \in 0..(n - 1) :
                 IsTypeCode(NatOf(IntFromBytes(MapItemTypeBytes(d, off, k))))

\* C5: a container whose header passes every check and declares count 0 for
\* all six tables, and whose map list is sound, decodes without error, to six
\* empty tables, whatever the six offsets are.
C5_EmptyContainerWithGoodMapDecodes ==
    (/\ pc = "parsed"
     /\ header.err = "none"
     /\ AllCountsZero(header)
     /\ MapListSound(data, header)) =>
        parser.err = "none" /\ AllTablesEmpty(parser)

C5_Witness ==
    /\ pc = "parsed"
    /\ parser.err = "none"
    /\ AllCountsZero(header)
    /\ AllTablesEmpty(parser)
    /\ header.string_ids_off = IntOfNat(FullLen + 8)
    /\ header.type_ids_off = IntOfNat(HEADER_SIZE)

\* the bytes of record i (from 0) of a table at off with the given stride
RecordBytes(d, off, stride, i) ==
    PySlice(d, NatOf(off) + i * stride, NatOf(off) + (i + 1) * stride)

\* C9: after a successful decode each of the five id tables has exactly the
\* count of entries the header declares, and entry i is decoded from bytes
\* [offset + i * stride, offset + (i + 1) * stride) of the buffer, with stride
\* 4, 4, 12, 8, 8 for strings, types, protos, fields, methods, in ascending i.
C9_TablesFollowHeader ==
    parser.err = "none" =>
        LET h == parser.header IN
        /\ Len(parser.string_ids) = NatOf(h.string_ids_size)
        /\ \A i \in 0..(NatOf(h.string_ids_size) - 1) :
              parser.string_ids[i + 1]
                  = StringIdItem(RecordBytes(data, h.string_ids_off, 4, i))
        /\ Len(parser.type_ids) = NatOf(h.type_ids_size)
        /\ \A i \in 0..(NatOf(h.type_ids_size) - 1) :
              parser.type_ids[i + 1]
                  = TypeIdItem(RecordBytes(data, h.type_ids_off, 4, i))
        /\ Len(parser.proto_ids) = NatOf(h.proto_ids_size)
        /\ \A i \in 0..(NatOf(h.proto_ids_size) - 1) :
              parser.proto_ids[i + 1]
                  = ProtoIdItem(RecordBytes(data, h.proto_ids_off, 12, i))
        /\ Len(parser.field_ids) = NatOf(h.field_ids_size)
        /\ \A i \in 0..(NatOf(h.field_ids_size) - 1) :
              parser.field_ids[i + 1]
                  = FieldIdItem(RecordBytes(data, h.field_ids_off, 8, i))
        /\ Len(parser.method_ids) = NatOf(h.method_ids_size)
        /\ \A i \in 0..(NatOf(h.method_ids_size) - 1) :
              parser.method_ids[i + 1]
                  = MethodIdItem(RecordBytes(data, h.method_ids_off, 8, i))

C9_Witness ==
    /\ parser.err = "none"
    /\ Len(parser.proto_ids) = MaxCount
    /\ parser.header.proto_ids_off = IntOfNat(HEADER_SIZE + 4)
    /\ parser.proto_ids[1] # parser.proto_ids[2]

\* a table of `size` records of the given stride at `off` runs past the end
PastEnd(d, off, size, stride) ==
    NatOf(size) > 0 /\ NatOf(off) + NatOf(size) * stride > Len(d)

\* the map list at off (its count, then that many 12-byte items) runs past
\* the end
MapPastEnd(d, off) ==
    \/ off + 4 > Len(d)
    \/ off + 4 + 12 * Min(NatOf(IntFromBytes(PySlice(d, off, off + 4))), Len(d)) > Len(d)

\* some table the header declares, or the map list at map_off, runs past the
\* end of the buffer
SomeRegionPastEnd(d, h) ==
    \/ PastEnd(d, h.string_ids_off, h.string_ids_size, 4)
    \/ PastEnd(d, h.type_ids_off, h.type_ids_size, 4)
    \/ PastEnd(d, h.proto_ids_off, h.proto_ids_size, 12)
    \/ PastEnd(d, h.field_ids_off, h.field_ids_size, 8)
    \/ PastEnd(d, h.method_ids_off, h.method_ids_size, 8)
    \/ PastEnd(d, h.class_defs_off, h.class_defs_size, 32)
    \/ MapPastEnd(d, NatOf(h.map_off))

\* C10: when a table region the header declares, or the map list, runs past
\* the end of the buffer, decoding fails with BadDexFileError and builds no
\* record from missing bytes.
C10_OutOfBoundsFails ==
    (pc = "parsed" /\ header.err = "none" /\ SomeRegionPastEnd(data, header)) =>
        parser.err = "BadDexFileError"

----------------------------------------------------------------------------
(* Claims about the varint decoder (SpecUleb) *)

\* index of the first byte with the high bit clear, -1 when there is none
RECURSIVE FirstClear(_, _)
FirstClear(d, i) ==
    IF i >= Len(d) THEN -1 ELSE IF d[i + 1] < 128 THEN i ELSE FirstClear(d, i + 1)

\* the low 7 bits of byte i (from 0) when i <= k, else 0
Group(d, i, k) == IF i <= k THEN d[i + 1] % 128 ELSE 0

\* a PyInt below 2^35 as <<value \div 2^28, value % 2^28>>
SplitAt28(x) ==
    LET y == x \o [j \in 1..(5 - Len(x)) |-> 0]
    IN  <<(y[4] \div 16) + 16 * y[5],
          y[1] + 256 * y[2] + 65536 * y[3] + 16777216 * (y[4] % 16)>>

\* C6: when the first byte with the high bit clear is at position k <= 4, the
\* decoded value is the sum over i in 0..k of (byte_i & 0x7f) << (7 * i); the
\* bytes after position k have no part in it.
C6_VarintValue ==
    (pc = "converted" /\ FirstClear(data, 0) \in 0..4) =>
        LET k == FirstClear(data, 0) IN
        /\ Len(uleb.value) <= 5
        /\ SplitAt28(uleb.value)
              = <<Group(data, 4, k),
                  Group(data, 0, k) + 128 * Group(data, 1, k)
                      + 16384 * Group(data, 2, k) + 2097152 * Group(data, 3, k)>>

C6_Witness ==
    /\ pc = "converted"
    /\ FirstClear(data, 0) = 4
    /\ Len(data) > 5
    /\ data[5] = 127
    /\ data[6] = 255

\* C7: when no byte with the high bit clear is found, whether the first five
\* bytes all have it set or the input ends after 0 to 4 such bytes, the
\* decoder fails with BadDexFileError and returns no value.
C7_NoTerminatorFails ==
    (pc \in {"decoded", "converted"} /\ FirstClear(SubSeq(data, 1, Min(5, Len(data))), 0) = -1) =>
        uleb.err = "BadDexFileError"

\* the minimal-length varint of the value <<hi, lo>> = hi * 2^28 + lo < 2^35:
\* 7 bits a byte, least significant first, the high bit set on all but the last
UlebEncode(v) ==
    LET g == <<v[2] % 128, (v[2] \div 128) % 128, (v[2] \div 16384) % 128,
               v[2] \div 2097152, v[1]>>
        n == IF g[5] # 0 THEN 5 ELSE IF g[4] # 0 THEN 4 ELSE IF g[3] # 0 THEN 3
             ELSE IF g[2] # 0 THEN 2 ELSE 1
    IN  [i \in 1..n |-> IF i < n THEN g[i] + 128 ELSE g[i]]

\* five bytes, the first four with the high bit set and the fifth with it clear
FiveByteForm(d) ==
    /\ Len(d) = 5
    /\ \A i \in 1..4 : d[i] >= 128
    /\ d[5] < 128

\* C8 as first stated: for every five-byte sequence whose first four bytes
\* have the high bit set and whose fifth has it clear, encoding the decoded
\* value as a minimal-length varint gives the five bytes back.
C8_RoundTrip ==
    (pc = "converted" /\ FiveByteForm(data)) =>
        UlebEncode(SplitAt28(uleb.value)) = data

\* C8: the same, for the sequences whose fifth byte is not zero.
C8_RoundTripNonZeroLast ==
    (pc = "converted" /\ FiveByteForm(data) /\ data[5] # 0) =>
        UlebEncode(SplitAt28(uleb.value)) = data

C8_Witness ==
    /\ pc = "converted"
    /\ FiveByteForm(data)
    /\ data[5] = 1
    /\ data[1] = 128
    /\ UlebEncode(SplitAt28(uleb.value)) = data

----------------------------------------------------------------------------
(* Resolvers: what a record refers to, looked up when the caller asks *)

\* faulty variant: an index past the end wraps round to the start of the list
ListItemWrapped(list, idx) ==
    IF list # <<>>
    THEN [err |-> "none", check |-> "none", item |-> list[(NatOf(idx) % Len(list)) + 1]]
    ELSE Raise("IndexError", "list index")

\* list[idx] for an index read from a record (never negative): the item, or
\* Python's IndexError when idx is len(list) or more
ListItem(list, idx) ==
    IF NatOf(idx) < Len(list)
    THEN [err |-> "none", check |-> "none", item |-> list[NatOf(idx) + 1]]
    ELSE Raise("IndexError", "list index")

\* a resolver's return value None
None == [err |-> "none", check |-> "absent"]

\* a constructed object returned by a resolver
Found(obj) == [err |-> "none", check |-> "none", item |-> obj]

get_string_id_item(self, string_ids) == ListItem(string_ids, self.descriptor_idx)

get_shorty_string_id_item(self, string_ids) == ListItem(string_ids, self.shorty_idx)

get_return_type_type_id_item(self, type_ids) == ListItem(type_ids, self.return_type_idx)

\* FieldIdItem, MethodIdItem and ClassDefItem each define it, with the same body
get_class_type_id_item(self, type_ids) == ListItem(type_ids, self.class_idx)

\* TypeItem and FieldIdItem each define it, with the same body
get_type_type_id_item(self, type_ids) == ListItem(type_ids, self.type_idx)

\* FieldIdItem and MethodIdItem each define it, with the same body
get_name_string_id_item(self, string_ids) == ListItem(string_ids, self.name_idx)

get_proto_proto_id_item(self, proto_ids) == ListItem(proto_ids, self.proto_idx)

TypeItem(rec) == [type_idx |-> IntFromBytes(rec)]

TypeList(d) ==
    LET size == IntFromBytes(PySlice(d, 0, 4))
        recs == Records(d, IntOfNat(4), size, 2)
    IN  [size |-> size, list |-> [k \in 1..Len(recs) |-> TypeItem(recs[k])]]

\* faulty variant: the list is looked up in the buffer whatever the offset is
get_parametersAlwaysRead(self, d) == Found(TypeList(PyFrom(d, NatOf(self.parameters_off))))

\* ProtoIdItem.get_parameters; bytes(4) is four zero bytes
get_parameters(self, d) ==
    IF self.parameters_off = IntOfNat(0)
    THEN Found(TypeList(<<0, 0, 0, 0>>))
    ELSE Found(TypeList(PyFrom(d, NatOf(self.parameters_off))))

\* StringDataItem.__init__: the text is the decoding of the utf16size bytes
\* that follow the first byte
StringDataItem(d) ==
    LET utf16size == IntFromBytes(PySlice(d, 0, 1))
        payload   == PySlice(d, 1, 1 + NatOf(utf16size))
    IN  IF ~Utf8Valid(payload) THEN Raise("UnicodeDecodeError", "string_data")
        ELSE [err |-> "none", check |-> "none",
              utf16size |-> utf16size, data |-> Utf8Decode(payload)]

get_string_data_item(self, d) == StringDataItem(PyFrom(d, NatOf(self.string_data_off)))

----------------------------------------------------------------------------
(* Class data: EncodedField, EncodedMethod, ClassDataItem *)

\* int(u) of a decoded Uleb128
IntOfUleb(u) == Uleb128Int(u.data)

\* EncodedField.__init__
EncodedField(d) ==
    LET field_idx_diff == Uleb128(d) IN
    IF field_idx_diff.err # "none" THEN field_idx_diff
    ELSE LET off          == field_idx_diff.size
             access_flags == Uleb128(PyFrom(d, off)) IN
    IF access_flags.err # "none" THEN access_flags
    ELSE [err |-> "none", check |-> "none",
          field_idx_diff |-> field_idx_diff,
          access_flags   |-> access_flags,
          size           |-> off + access_flags.size]

\* EncodedMethod.__init__
EncodedMethod(d) ==
    LET method_idx_diff == Uleb128(d) IN
    IF method_idx_diff.err # "none" THEN method_idx_diff
    ELSE LET off1         == method_idx_diff.size
             access_flags == Uleb128(PyFrom(d, off1)) IN
    IF access_flags.err # "none" THEN access_flags
    ELSE LET off2     == off1 + access_flags.size
             code_off == Uleb128(PyFrom(d, off2)) IN
    IF code_off.err # "none" THEN code_off
    ELSE [err |-> "none", check |-> "none",
          method_idx_diff |-> method_idx_diff,
          access_flags    |-> access_flags,
          code_off        |-> code_off,
          size            |-> off2 + code_off.size]

\* the four sequences of a ClassDataItem, in the order its loops fill them
ClassDataLists == <<"static_fields", "instance_fields", "direct_mehtods", "virtual_methods">>

ClassDataSizes ==
    <<"static_fields_size", "instance_fields_size", "direct_mehtods_size",
      "virtual_methods_size">>

\* ClassDataItem.__init__ down to the four empty lists: the four counts are
\* read and off stands behind them
ClassDataCounts(d) ==
    LET c1 == Uleb128(d) IN
    IF c1.err # "none" THEN c1
    ELSE LET o1 == c1.size
             c2 == Uleb128(PyFrom(d, o1)) IN
    IF c2.err # "none" THEN c2
    ELSE LET o2 == o1 + c2.size
             c3 == Uleb128(PyFrom(d, o2)) IN
    IF c3.err # "none" THEN c3
    ELSE LET o3 == o2 + c3.size
             c4 == Uleb128(PyFrom(d, o3)) IN
    IF c4.err # "none" THEN c4
    ELSE [err |-> "none", check |-> "none", off |-> o3 + c4.size,
          static_fields_size   |-> c1,
          instance_fields_size |-> c2,
          direct_mehtods_size  |-> c3,
          virtual_methods_size |-> c4,
          static_fields   |-> <<>>,
          instance_fields |-> <<>>,
          direct_mehtods  |-> <<>>,
          virtual_methods |-> <<>>]

\* range(int(size)) of the k-th loop: how many times its body runs
ClassDataDeclared(cd, k) == NatOf(IntOfUleb(cd[ClassDataSizes[k]]))

\* one pass through the body of the k-th loop: a record is decoded at off and
\* appended, and off moves past it
ClassDataAppend(d, cd, k) ==
    LET e == IF k <= 2 THEN EncodedField(PyFrom(d, cd.off))
             ELSE EncodedMethod(PyFrom(d, cd.off))
    IN  IF e.err # "none" THEN e
        ELSE [cd EXCEPT ![ClassDataLists[k]] = Append(@, e), !.off = @ + e.size]

\* the loops from the k-th on, run to the end
RECURSIVE ClassDataLoops(_, _, _)
ClassDataLoops(d, cd, k) ==
    IF cd.err # "none" \/ k > 4 THEN cd
    ELSE IF Len(cd[ClassDataLists[k]]) < ClassDataDeclared(cd, k)
        THEN ClassDataLoops(d, ClassDataAppend(d, cd, k), k)
    ELSE ClassDataLoops(d, cd, k + 1)

\* ClassDataItem.__init__
ClassDataItem(d) == ClassDataLoops(d, ClassDataCounts(d), 1)

----------------------------------------------------------------------------
(* Members of a class: get_field, get_method, dump_data *)

\* x + y + carry for PyInts x, y
RECURSIVE AddCarry(_, _, _)
AddCarry(x, y, carry) ==
    IF x = <<>> /\ y = <<>> THEN IntOfNat(carry)
    ELSE LET a == IF x = <<>> THEN 0 ELSE x[1]
             b == IF y = <<>> THEN 0 ELSE y[1]
             t == a + b + carry
         IN  <<t % 256>> \o AddCarry(IF x = <<>> THEN x ELSE Tail(x),
                                     IF y = <<>> THEN y ELSE Tail(y), t \div 256)

\* prev_idx + int(diff)
AddInt(x, y) == StripZeros(AddCarry(x, y, 0))

\* EncodedField.get_field
get_field(self, prev_idx, field_ids) ==
    ListItem(field_ids, AddInt(prev_idx, IntOfUleb(self.field_idx_diff)))

\* EncodedMethod.get_method
get_method(self, prev_idx, method_ids) ==
    ListItem(method_ids, AddInt(prev_idx, IntOfUleb(self.method_idx_diff)))

\* EncodedField.get_access_flags and EncodedMethod.get_access_flags
get_access_flags(self) ==
    IF IsAccessFlag(IntOfUleb(self.access_flags))
    THEN Found(IntOfUleb(self.access_flags))
    ELSE Raise("ValueError", "access_flags")

\* EncodedField.dump_data: what the line is made of (the member found, the text
\* of its name, the delta and the flags) in place of the formatted text
EncodedField_dump_data(self, prev_idx, field_ids, string_ids, full_data) ==
    LET member == get_field(self, prev_idx, field_ids) IN
    IF member.err # "none" THEN member
    ELSE LET name_id == get_name_string_id_item(member.item, string_ids) IN
    IF name_id.err # "none" THEN name_id
    ELSE LET name == get_string_data_item(name_id.item, full_data) IN
    IF name.err # "none" THEN name
    ELSE LET flags == get_access_flags(self) IN
    IF flags.err # "none" THEN flags
    ELSE [err |-> "none", check |-> "none",
          idx_diff |-> IntOfUleb(self.field_idx_diff),
          member |-> member.item, name |-> name.data, access_flags |-> flags.item]

\* EncodedMethod.dump_data
EncodedMethod_dump_data(self, prev_idx, method_ids, string_ids, full_data) ==
    LET member == get_method(self, prev_idx, method_ids) IN
    IF member.err # "none" THEN member
    ELSE LET name_id == get_name_string_id_item(member.item, string_ids) IN
    IF name_id.err # "none" THEN name_id
    ELSE LET name == get_string_data_item(name_id.item, full_data) IN
    IF name.err # "none" THEN name
    ELSE LET flags == get_access_flags(self) IN
    IF flags.err # "none" THEN flags
    ELSE [err |-> "none", check |-> "none",
          idx_diff |-> IntOfUleb(self.method_idx_diff),
          member |-> member.item, name |-> name.data, access_flags |-> flags.item,
          code_off |-> IntOfUleb(self.code_off)]

\* faulty variant: every member is looked up with prev_idx = 0
RECURSIVE DumpMembersNoCarry(_, _, _, _, _, _, _)
DumpMembersNoCarry(list, i, prev_idx, k, ids, string_ids, full_data) ==
    IF i > Len(list) THEN [err |-> "none", check |-> "none", lines |-> <<>>]
    ELSE LET line == IF k <= 2
                     THEN EncodedField_dump_data(list[i], prev_idx, ids, string_ids, full_data)
                     ELSE EncodedMethod_dump_data(list[i], prev_idx, ids, string_ids, full_data)
         IN
    IF line.err # "none" THEN line
    ELSE LET rest == DumpMembersNoCarry(list, i + 1, prev_idx, k, ids, string_ids, full_data)
         IN
    IF rest.err # "none" THEN rest
    ELSE [err |-> "none", check |-> "none", lines |-> <<line>> \o rest.lines]

\* one loop of ClassDataItem.dump_data from position i on, entered with
\* prev_idx: each member is dumped, then prev_idx grows by its delta
RECURSIVE DumpMembers(_, _, _, _, _, _, _)
DumpMembers(list, i, prev_idx, k, ids, string_ids, full_data) ==
    IF i > Len(list) THEN [err |-> "none", check |-> "none", lines |-> <<>>]
    ELSE LET line == IF k <= 2
                     THEN EncodedField_dump_data(list[i], prev_idx, ids, string_ids, full_data)
                     ELSE EncodedMethod_dump_data(list[i], prev_idx, ids, string_ids, full_data)
             diff == IF k <= 2 THEN IntOfUleb(list[i].field_idx_diff)
                     ELSE IntOfUleb(list[i].method_idx_diff)
         IN
    IF line.err # "none" THEN line
    ELSE LET rest == DumpMembers(list, i + 1, AddInt(prev_idx, diff), k, ids,
                                 string_ids, full_data)
         IN
    IF rest.err # "none" THEN rest
    ELSE [err |-> "none", check |-> "none", lines |-> <<line>> \o rest.lines]

\* ClassDataItem.dump_data: the four loops, each entered with prev_idx = 0
ClassDataItem_dump_data(self, method_ids, field_ids, proto_ids, type_ids, string_ids, full_data) ==
    LET sf == DumpMembers(self.static_fields, 1, IntOfNat(0), 1, field_ids,
                          string_ids, full_data) IN
    IF sf.err # "none" THEN sf
    ELSE LET nf == DumpMembers(self.instance_fields, 1, IntOfNat(0), 2, field_ids,
                               string_ids, full_data) IN
    IF nf.err # "none" THEN nf
    ELSE LET dm == DumpMembers(self.direct_mehtods, 1, IntOfNat(0), 3, method_ids,
                               string_ids, full_data) IN
    IF dm.err # "none" THEN dm
    ELSE LET vm == DumpMembers(self.virtual_methods, 1, IntOfNat(0), 4, method_ids,
                               string_ids, full_data) IN
    IF vm.err # "none" THEN vm
    ELSE [err |-> "none", check |-> "none",
          static_fields   |-> sf.lines,
          instance_fields |-> nf.lines,
          direct_mehtods  |-> dm.lines,
          virtual_methods |-> vm.lines]

----------------------------------------------------------------------------
(* The optional parts of a class definition *)

FieldAnnotation(rec) ==
    [field_idx       |-> IntFromBytes(PySlice(rec, 0, 4)),
     annotations_off |-> IntFromBytes(PySlice(rec, 4, 8))]

\* AnnotationDirectoryItem.__init__.  The module defines no MethodAnnotation
\* and no ParameterAnnotation: the first pass of a list comprehension that
\* names one raises NameError, and a comprehension over an empty range names
\* nothing.
AnnotationDirectoryItem(d) ==
    LET fields_size             == IntFromBytes(PySlice(d, 4, 8))
        annoted_methods_size    == IntFromBytes(PySlice(d, 8, 12))
        annoted_parameters_size == IntFromBytes(PySlice(d, 12, 16))
        recs == Records(d, IntOfNat(16), fields_size, 8)
    IN  IF annoted_methods_size # IntOfNat(0)
            THEN Raise("NameError", "MethodAnnotation")
        ELSE IF annoted_parameters_size # IntOfNat(0)
            THEN Raise("NameError", "ParameterAnnotation")
        ELSE [err |-> "none", check |-> "none",
              class_annotations_off   |-> IntFromBytes(PySlice(d, 0, 4)),
              fields_size             |-> fields_size,
              annoted_methods_size    |-> annoted_methods_size,
              annoted_parameters_size |-> annoted_parameters_size,
              field_annotations     |-> [k \in 1..Len(recs) |-> FieldAnnotation(recs[k])],
              method_annotations    |-> <<>>,
              parameter_annotations |-> <<>>]

\* EncodedArrayItem.__init__ reads nothing and sets nothing
EncodedArrayItem(d) == [err |-> "none", check |-> "none"]

\* faulty variant: the sentinel of the offsets taken for the sentinel of the index
get_superclass_type_id_itemZeroAbsent(self, type_ids) ==
    IF self.superclass_idx = IntOfNat(0) THEN None
    ELSE ListItem(type_ids, self.superclass_idx)

get_superclass_type_id_item(self, type_ids) ==
    IF self.superclass_idx = NO_INDEX THEN None
    ELSE ListItem(type_ids, self.superclass_idx)

get_interfaces_type_list(self, d) ==
    IF self.interfaces_off = IntOfNat(0) THEN None
    ELSE Found(TypeList(PyFrom(d, NatOf(self.interfaces_off))))

get_source_file_string_id_item(self, string_ids) ==
    IF self.source_file_idx = NO_INDEX THEN None
    ELSE ListItem(string_ids, self.source_file_idx)

get_annotations_annotation_directory_item(self, d) ==
    IF self.annotations_off = IntOfNat(0) THEN None
    ELSE LET a == AnnotationDirectoryItem(PyFrom(d, NatOf(self.annotations_off)))
         IN  IF a.err # "none" THEN a ELSE Found(a)

get_class_data_class_data_item(self, d) ==
    IF self.class_data_off = IntOfNat(0) THEN None
    ELSE LET c == ClassDataItem(PyFrom(d, NatOf(self.class_data_off)))
         IN  IF c.err # "none" THEN c ELSE Found(c)

get_static_values_encoded_array_item(self, d) ==
    IF self.static_values_off = IntOfNat(0) THEN None
    ELSE Found(EncodedArrayItem(PyFrom(d, NatOf(self.static_values_off))))

----------------------------------------------------------------------------
(* EncodedValue *)

\* ValueFormat(value) succeeds: value is a member of the enumeration
IsValueFormat(v) == v \in {0, 2, 3, 4, 6, 16, 17} \cup (21..31)

\* int.from_bytes(s, "little", signed=True) of at most one byte
SignedByte(s) == IF s = <<>> THEN 0 ELSE IF s[1] < 128 THEN s[1] ELSE s[1] - 256

\* EncodedValue.__init__.  In data[0] & 0xe0 >> 5 the shift binds tighter than
\* the mask: value_arg is data[0] & 7.  Only VALUE_BYTE assigns value; the
\* attribute is <<v>> once assigned and <<>> while it is not.
EncodedValue(d) ==
    IF d = <<>> THEN Raise("IndexError", "header byte")
    ELSE IF ~IsValueFormat(d[1] % 32) THEN Raise("ValueError", "value_type")
    ELSE LET value_type == d[1] % 32
             value_arg  == d[1] % 8
         IN
    IF value_type = 0 /\ value_arg # 0 THEN Raise("BadDexFileError", "value_arg")
    ELSE [err |-> "none", check |-> "none",
          value_type |-> value_type,
          value_arg  |-> value_arg,
          value      |-> IF value_type = 0 THEN <<SignedByte(PySlice(d, 1, 2))>> ELSE <<>>]

----------------------------------------------------------------------------
(* Specification SpecResolve: a container is decoded, then its records are  *)
(* resolved one call at a time, in any order and as often as wanted.        *)
(* The input buffers built here model no code.                              *)

\* a container image that passes every header check and has no map list: the
\* header, with the count and the offset of each of the six tables, then body
Container(tables, body) ==
    LET len    == HEADER_SIZE + Len(body)
        part32 == LE32(len) \o LE32(HEADER_SIZE) \o Pad4(ENDIAN_CONSTANT)
                  \o LE32(0) \o LE32(0) \o LE32(len)
                  \o LE32(tables[1][1]) \o LE32(tables[1][2])
                  \o LE32(tables[2][1]) \o LE32(tables[2][2])
                  \o LE32(tables[3][1]) \o LE32(tables[3][2])
                  \o LE32(tables[4][1]) \o LE32(tables[4][2])
                  \o LE32(tables[5][1]) \o LE32(tables[5][2])
                  \o LE32(tables[6][1]) \o LE32(tables[6][2])
                  \o LE32(Len(body)) \o LE32(HEADER_SIZE) \o body
        part12 == sha1(part32) \o part32
    IN  MAGIC \o <<48, 51, 53, 0>> \o Pad4(adler32(part12)) \o part12

\* where the parts of the body lie: MaxCount string ids, MaxCount type ids,
\* one prototype, one field, one method, one class definition, one blob
TypeIdsAt == HEADER_SIZE + 4 * MaxCount

ProtoIdsAt == TypeIdsAt + 4 * MaxCount

FieldIdsAt == ProtoIdsAt + 12

MethodIdsAt == FieldIdsAt + 8

ClassDefsAt == MethodIdsAt + 8

BlobAt == ClassDefsAt + 32

\* Bytes that read as a TypeList (one item), as an AnnotationDirectoryItem
\* (one field annotation) and as a ClassDataItem (one static field).
Blob == <<1, 0, 0, 0, 1, 0>> \o LE32(0) \o LE32(0) \o LE32(0) \o LE32(0) \o <<0, 0>>

AllOnes == <<255, 255, 255, 255>>

\* values of a 16-bit index field, of a 32-bit index field, of an offset field
Idx16Choices == {<<0, 0>>, <<1, 0>>, <<2, 0>>, <<255, 255>>}

Idx32Choices == {LE32(0), LE32(1), LE32(2), AllOnes}

OffsetChoices == {LE32(0), LE32(BlobAt), AllOnes}

\* the next value, so that neighbouring fields of one record differ
NextIdx16(a) ==
    IF a = <<0, 0>> THEN <<255, 255>> ELSE IF a = <<255, 255>> THEN <<1, 0>>
    ELSE IF a = <<1, 0>> THEN <<2, 0>> ELSE <<0, 0>>

NextIdx32(c) ==
    IF c = LE32(0) THEN AllOnes ELSE IF c = AllOnes THEN LE32(1)
    ELSE IF c = LE32(1) THEN LE32(2) ELSE LE32(0)

NextOffset(o) ==
    IF o = LE32(0) THEN LE32(BlobAt) ELSE IF o = LE32(BlobAt) THEN AllOnes ELSE LE32(0)

\* n copies of rec, one after the other
Repeat(rec, n) == [k \in 1..(n * Len(rec)) |-> rec[((k - 1) % Len(rec)) + 1]]

ResolveBody(a, c, o) ==
    Repeat(LE32(BlobAt), MaxCount)
    \o c \o Repeat(LE32(0), MaxCount - 1)
    \o c \o NextIdx32(c) \o o
    \o a \o NextIdx16(a) \o c
    \o a \o NextIdx16(a) \o NextIdx32(c)
    \o c \o LE32(1) \o c \o o \o NextIdx32(c)
       \o NextOffset(o) \o NextOffset(NextOffset(o)) \o o
    \o Blob

ResolveInputs ==
    {Container(<<<<ns, HEADER_SIZE>>, <<nt, TypeIdsAt>>, <<1, ProtoIdsAt>>,
                 <<1, FieldIdsAt>>, <<1, MethodIdsAt>>, <<1, ClassDefsAt>>>>,
               ResolveBody(a, c, o)) :
        ns \in 0..MaxCount, nt \in 0..MaxCount,
        a \in Idx16Choices, c \in Idx32Choices, o \in OffsetChoices}

\* the resolvers, each with the table that holds the records it is called on
Resolvers ==
    {<<"TypeIdItem.get_string_id_item", "type_ids">>,
     <<"ProtoIdItem.get_shorty_string_id_item", "proto_ids">>,
     <<"ProtoIdItem.get_return_type_type_id_item", "proto_ids">>,
     <<"FieldIdItem.get_class_type_id_item", "field_ids">>,
     <<"FieldIdItem.get_type_type_id_item", "field_ids">>,
     <<"FieldIdItem.get_name_string_id_item", "field_ids">>,
     <<"MethodIdItem.get_class_type_id_item", "method_ids">>,
     <<"MethodIdItem.get_proto_proto_id_item", "method_ids">>,
     <<"MethodIdItem.get_name_string_id_item", "method_ids">>,
     <<"ClassDefItem.get_class_type_id_item", "class_defs">>,
     <<"ClassDefItem.get_superclass_type_id_item", "class_defs">>,
     <<"ClassDefItem.get_interfaces_type_list", "class_defs">>,
     <<"ClassDefItem.get_source_file_string_id_item", "class_defs">>,
     <<"ClassDefItem.get_annotations_annotation_directory_item", "class_defs">>,
     <<"ClassDefItem.get_class_data_class_data_item", "class_defs">>,
     <<"ClassDefItem.get_static_values_encoded_array_item", "class_defs">>}

\* the call op makes on the record self of the decoded container p
Call(op, self, p) ==
    CASE op = "TypeIdItem.get_string_id_item" -> get_string_id_item(self, p.string_ids)
      [] op = "ProtoIdItem.get_shorty_string_id_item" ->
            get_shorty_string_id_item(self, p.string_ids)
      [] op = "ProtoIdItem.get_return_type_type_id_item" ->
            get_return_type_type_id_item(self, p.type_ids)
      [] op = "FieldIdItem.get_class_type_id_item" -> get_class_type_id_item(self, p.type_ids)
      [] op = "FieldIdItem.get_type_type_id_item" -> get_type_type_id_item(self, p.type_ids)
      [] op = "FieldIdItem.get_name_string_id_item" ->
            get_name_string_id_item(self, p.string_ids)
      [] op = "MethodIdItem.get_class_type_id_item" -> get_class_type_id_item(self, p.type_ids)
      [] op = "MethodIdItem.get_proto_proto_id_item" ->
            get_proto_proto_id_item(self, p.proto_ids)
      [] op = "MethodIdItem.get_name_string_id_item" ->
            get_name_string_id_item(self, p.string_ids)
      [] op = "ClassDefItem.get_class_type_id_item" -> get_class_type_id_item(self, p.type_ids)
      [] op = "ClassDefItem.get_superclass_type_id_item" ->
            get_superclass_type_id_item(self, p.type_ids)
      [] op = "ClassDefItem.get_interfaces_type_list" ->
            get_interfaces_type_list(self, p.full_data)
      [] op = "ClassDefItem.get_source_file_string_id_item" ->
            get_source_file_string_id_item(self, p.string_ids)
      [] op = "ClassDefItem.get_annotations_annotation_directory_item" ->
            get_annotations_annotation_directory_item(self, p.full_data)
      [] op = "ClassDefItem.get_class_data_class_data_item" ->
            get_class_data_class_data_item(self, p.full_data)
      [] op = "ClassDefItem.get_static_values_encoded_array_item" ->
            get_static_values_encoded_array_item(self, p.full_data)

NoCall == [op |-> "none", table |-> "none", k |-> 0, failed_before |-> FALSE]

InitResolve ==
    /\ data \in ResolveInputs
    /\ orig = data
    /\ pc = "new"
    /\ header = Pending
    /\ parser = Pending
    /\ hit = -1
    /\ uleb = Pending
    /\ arg = NoCall
    /\ out = Pending

\* one resolver call on one record of the decoded container; arg keeps which
\* call it was and whether a call before it had failed
Resolve ==
    /\ pc = "parsed"
    /\ parser.err = "none"
    /\ \E r \in Resolvers : \E k \in 1..Len(parser[r[2]]) :
          /\ arg' = [op |-> r[1], table |-> r[2], k |-> k,
                     failed_before |-> arg.failed_before
                                       \/ out.err \notin {"none", "pending"}]
          /\ out' = Call(r[1], parser[r[2]][k], parser)
    /\ UNCHANGED <<data, pc, header, parser, orig, hit, uleb>>

NextResolve == NewHeaderItem \/ NewDexParser \/ Resolve

SpecResolve == InitResolve /\ [][NextResolve]_vars

----------------------------------------------------------------------------
(* Claims about the resolvers (SpecResolve) *)

\* the resolvers that look an index up: the field that holds the index and
\* the table it indexes
IndexResolvers ==
    {<<"TypeIdItem.get_string_id_item", "descriptor_idx", "string_ids">>,
     <<"ProtoIdItem.get_shorty_string_id_item", "shorty_idx", "string_ids">>,
     <<"ProtoIdItem.get_return_type_type_id_item", "return_type_idx", "type_ids">>,
     <<"FieldIdItem.get_class_type_id_item", "class_idx", "type_ids">>,
     <<"FieldIdItem.get_type_type_id_item", "type_idx", "type_ids">>,
     <<"FieldIdItem.get_name_string_id_item", "name_idx", "string_ids">>,
     <<"MethodIdItem.get_class_type_id_item", "class_idx", "type_ids">>,
     <<"MethodIdItem.get_proto_proto_id_item", "proto_idx", "proto_ids">>,
     <<"MethodIdItem.get_name_string_id_item", "name_idx", "string_ids">>,
     <<"ClassDefItem.get_class_type_id_item", "class_idx", "type_ids">>,
     <<"ClassDefItem.get_superclass_type_id_item", "superclass_idx", "type_ids">>,
     <<"ClassDefItem.get_source_file_string_id_item", "source_file_idx", "string_ids">>}

\* the two index fields that may hold the "no index" value
OptionalIndexFields == {"superclass_idx", "source_file_idx"}

\* the last call was resolver r, on a record whose index field holds an index
ResolvedIndex(r) ==
    /\ out # Pending
    /\ arg.op = r[1]
    /\ ~(r[2] \in OptionalIndexFields /\ parser[arg.table][arg.k][r[2]] = NO_INDEX)

\* C11: reference validity is checked lazily.  The container decodes whatever
\* index values its type, proto, field, method and class-def records hold;
\* a resolver call on a record whose index is the size of the indexed table or
\* more fails with the lookup error (IndexError), a call on a record whose
\* index is smaller returns the indexed entry, also after earlier calls have
\* failed.  (An optional index field holding NO_INDEX is no index: C14.)
C11_LazyReferenceCheck ==
    /\ parser # Pending => parser.err = "none"
    /\ \A r \in IndexResolvers :
          ResolvedIndex(r) =>
             LET idx   == parser[arg.table][arg.k][r[2]]
                 table == parser[r[3]]
             IN  IF NatOf(idx) >= Len(table)
                 THEN out.err = "IndexError"
                 ELSE out = Found(table[NatOf(idx) + 1])

\* a call succeeds on an in-range index after another call has failed
C11_Witness ==
    /\ \E r \in IndexResolvers : ResolvedIndex(r)
    /\ arg.failed_before
    /\ out.err = "none"
    /\ out.check = "none"

\* the optional resolvers of a class definition: the field each looks at and
\* the value of that field that stands for "absent"
OptionalResolvers ==
    {<<"ClassDefItem.get_superclass_type_id_item", "superclass_idx", NO_INDEX>>,
     <<"ClassDefItem.get_interfaces_type_list", "interfaces_off", IntOfNat(0)>>,
     <<"ClassDefItem.get_source_file_string_id_item", "source_file_idx", NO_INDEX>>,
     <<"ClassDefItem.get_annotations_annotation_directory_item", "annotations_off",
       IntOfNat(0)>>,
     <<"ClassDefItem.get_class_data_class_data_item", "class_data_off", IntOfNat(0)>>,
     <<"ClassDefItem.get_static_values_encoded_array_item", "static_values_off",
       IntOfNat(0)>>}

\* C14: each optional resolver of a class-def record returns None exactly when
\* its own field holds its own sentinel (0 for the four offsets, 0xffffffff
\* for the two indices).  So an index of 0 and an offset of 0xffffffff are
\* looked up, and the sentinel gives None whatever the tables and the buffer
\* hold (empty tables included).
C14_AbsentExactlyOnSentinel ==
    \A r \in OptionalResolvers :
       (out # Pending /\ arg.op = r[1]) =>
          ((out = None) <=> (parser.class_defs[arg.k][r[2]] = r[3]))

\* an index of 0 is looked up and an offset of 0xffffffff is read
C14_Witness ==
    /\ out # Pending
    /\ out # None
    /\ \/ /\ arg.op = "ClassDefItem.get_superclass_type_id_item"
          /\ parser.class_defs[arg.k].superclass_idx = IntOfNat(0)
          /\ out.err = "none"
       \/ /\ arg.op = "ClassDefItem.get_interfaces_type_list"
          /\ parser.class_defs[arg.k].interfaces_off = NO_INDEX
          /\ out.err = "none"

----------------------------------------------------------------------------
(* Specification SpecParams: get_parameters of a prototype record, given a  *)
(* buffer.  The buffers model no code: two type lists one after the other,  *)
(* the first at byte 0, the second at byte 4, sharing the items.            *)

ParamsBuffers ==
    {LE32(n1) \o LE32(n2) \o [k \in 1..(2 * m) |-> IF k % 2 = 1 THEN 4 + (k \div 2) ELSE 0] :
        n1 \in 0..MaxCount, n2 \in 0..MaxCount, m \in 0..MaxCount}

\* prototype records: shorty_idx, return_type_idx, parameters_off
ParamsRecords ==
    {LE32(s) \o LE32(1) \o off : s \in {0, 7}, off \in {LE32(0), LE32(4), LE32(64), AllOnes}}

InitParams ==
    /\ data \in ParamsBuffers
    /\ arg \in ParamsRecords
    /\ orig = data
    /\ pc = "new"
    /\ header = Pending
    /\ parser = Pending
    /\ hit = -1
    /\ uleb = Pending
    /\ out = Pending

\* ProtoIdItem(arg).get_parameters(data)
GetParameters ==
    /\ pc = "new"
    /\ out' = get_parameters(ProtoIdItem(arg), data)
    /\ pc' = "resolved"
    /\ UNCHANGED <<data, header, parser, orig, hit, uleb, arg>>

NextParams == GetParameters

SpecParams == InitParams /\ [][NextParams]_vars

\* C12: for a prototype record whose parameters offset is 0, get_parameters
\* returns a type list of size 0 with no elements, whatever the buffer holds
\* (bytes 0..3 included).
C12_ZeroOffsetIsEmptyList ==
    (pc = "resolved" /\ PySlice(arg, 8, 12) = LE32(0)) =>
        out = Found([size |-> IntOfNat(0), list |-> <<>>])

\* the offset is 0 and the buffer holds a list of two items at byte 0
C12_Witness ==
    /\ pc = "resolved"
    /\ PySlice(arg, 8, 12) = LE32(0)
    /\ PySlice(data, 0, 4) = LE32(2)
    /\ Len(data) >= 12
    /\ out.item.list = <<>>

----------------------------------------------------------------------------
(* Specification SpecString: the string data a string id refers to.  The    *)
(* buffers model no code: some bytes, then a string data item (a length     *)
(* byte, the UTF-8 text, a zero byte).                                      *)

\* most characters in a text
MaxChars == 3

\* UTF-8 of "a", of U+00E9 and of U+20AC: one UTF-16 code unit each
Chars == {<<97>>, <<195, 169>>, <<226, 130, 172>>}

RECURSIVE Flatten(_)
Flatten(ss) == IF ss = <<>> THEN <<>> ELSE Head(ss) \o Flatten(Tail(ss))

Texts == UNION {[1..n -> Chars] : n \in 0..MaxChars}

\* the length byte is the number of UTF-16 code units, as the format has it,
\* or the number of bytes
StringBuffers ==
    UNION {{[k \in 1..pad |-> 255] \o <<declared>> \o Flatten(t) \o <<0>> :
                pad \in {0, 3}, declared \in {Len(t), Len(Flatten(t))}} : t \in Texts}

InitString ==
    /\ data \in StringBuffers
    /\ arg \in {LE32(0), LE32(3)}
    /\ NatOf(IntFromBytes(arg)) < Len(data)
    /\ data[NatOf(IntFromBytes(arg)) + 1] # 255
    /\ orig = data
    /\ pc = "new"
    /\ header = Pending
    /\ parser = Pending
    /\ hit = -1
    /\ uleb = Pending
    /\ out = Pending

\* StringIdItem(arg).get_string_data_item(data)
GetStringData ==
    /\ pc = "new"
    /\ out' = get_string_data_item(StringIdItem(arg), data)
    /\ pc' = "resolved"
    /\ UNCHANGED <<data, header, parser, orig, hit, uleb, arg>>

NextString == GetStringData

SpecString == InitString /\ [][NextString]_vars

\* the bytes of s from index i up to the first zero byte
RECURSIVE UpToZero(_, _)
UpToZero(s, i) ==
    IF i > Len(s) \/ s[i] = 0 THEN <<>> ELSE <<s[i]>> \o UpToZero(s, i + 1)

\* the UTF-8 payload of the string data item at byte off of d
Payload(d, off) == UpToZero(d, off + 2)

\* C13: decoding a string-data record returns the complete text of its UTF-8
\* payload, whatever its declared length byte is: the bytes decoded are not
\* bounded by the declared length.
C13_WholePayloadDecoded ==
    pc = "resolved" =>
        /\ out.err = "none"
        /\ out.data = Utf8Decode(Payload(data, NatOf(IntFromBytes(arg))))

----------------------------------------------------------------------------
(* Specification SpecClassData: a ClassDataItem is decoded from a buffer,   *)
(* one pass of its loops at a time, then dumped against tables.  The        *)
(* buffers and the tables built here model no code.                         *)

\* most records in one sequence of a class data item
MaxMembers == 2

\* index deltas of the members of a sequence, first member first
DeltaPatterns == {<<0, 1, 1>>, <<1, 2, 1>>, <<2, 1, 0>>, <<2, 2, 1>>}

\* field records: delta, access flags (1, in one byte)
FieldBytes(n, deltas) == Flatten([i \in 1..n |-> <<deltas[i], 1>>])

\* method records: delta (in two bytes), access flags (0x101, in two bytes),
\* code offset
MethodBytes(n, deltas) == Flatten([i \in 1..n |-> <<128 + deltas[i], 0, 129, 2, 16>>])

ClassDataImage(c, deltas) ==
    <<c[1], c[2], c[3], c[4]>>
    \o FieldBytes(c[1], deltas) \o FieldBytes(c[2], deltas)
    \o MethodBytes(c[3], deltas) \o MethodBytes(c[4], deltas)

CountChoices == [1..4 -> 0..MaxMembers]

\* whole images, images cut short, and images with a varint that never ends
ClassDataInputs ==
    {ClassDataImage(c, ds) : c \in CountChoices, ds \in DeltaPatterns}
    \cup {Take(ClassDataImage([k \in 1..4 |-> n], <<1, 2, 1>>), len) :
            n \in 1..MaxMembers, len \in 0..(4 + 14 * MaxMembers)}
    \cup {<<1, 0, 1, 0>> \o bad \o <<128, 1, 129, 2, 16>> :
            bad \in {<<128, 128, 128, 128, 128, 1>>, <<1, 255, 255, 255, 255, 255>>}}
    \cup {<<128, 128, 128, 128, 128, 0>>}

\* tables of n fields, n methods and n strings, with the buffer of the strings
DumpTables(n) ==
    [field_ids  |-> [k \in 1..n |-> FieldIdItem(<<0, 0, 0, 0>> \o LE32(k - 1))],
     method_ids |-> [k \in 1..n |-> MethodIdItem(<<0, 0, 0, 0>> \o LE32(n - k))],
     string_ids |-> [k \in 1..n |-> StringIdItem(LE32(3 * (k - 1)))],
     full_data  |-> Flatten([k \in 1..n |-> <<1, 96 + k, 0>>])]

InitClassData ==
    /\ data \in ClassDataInputs
    /\ arg \in {DumpTables(2), DumpTables(4)}
    /\ orig = data
    /\ pc = "new"
    /\ header = Pending
    /\ parser = Pending
    /\ hit = -1
    /\ uleb = Pending
    /\ out = Pending

\* the loop that runs next: the first whose list is shorter than its count
\* says, 5 when all four are done
CurrentLoop(cd) ==
    IF \E k \in 1..4 : Len(cd[ClassDataLists[k]]) < ClassDataDeclared(cd, k)
    THEN CHOOSE k \in 1..4 :
            /\ Len(cd[ClassDataLists[k]]) < ClassDataDeclared(cd, k)
            /\ \A j \in 1..(k - 1) : Len(cd[ClassDataLists[j]]) >= ClassDataDeclared(cd, j)
    ELSE 5

\* ClassDataItem(data), down to the loops
ReadCounts ==
    /\ pc = "new"
    /\ out' = ClassDataCounts(data)
    /\ pc' = IF out'.err = "none" THEN "loops" ELSE "failed"
    /\ UNCHANGED <<data, header, parser, orig, hit, uleb, arg>>

\* one pass of the loop that is running
AppendRecord ==
    /\ pc = "loops"
    /\ CurrentLoop(out) <= 4
    /\ out' = ClassDataAppend(data, out, CurrentLoop(out))
    /\ pc' = IF out'.err = "none" THEN "loops" ELSE "failed"
    /\ UNCHANGED <<data, header, parser, orig, hit, uleb, arg>>

\* the last loop is done: the constructor returns
ReturnClassData ==
    /\ pc = "loops"
    /\ CurrentLoop(out) = 5
    /\ pc' = "built"
    /\ UNCHANGED <<data, header, parser, orig, hit, uleb, arg, out>>

\* dump_data of the item built, with the tables of arg
DumpData ==
    /\ pc = "built"
    /\ out' = [err |-> "none", check |-> "none", item |-> out,
               dump |-> ClassDataItem_dump_data(out, arg.method_ids, arg.field_ids,
                                                <<>>, <<>>, arg.string_ids, arg.full_data)]
    /\ pc' = "dumped"
    /\ UNCHANGED <<data, header, parser, orig, hit, uleb, arg>>

NextClassData == ReadCounts \/ AppendRecord \/ ReturnClassData \/ DumpData

SpecClassData == InitClassData /\ [][NextClassData]_vars

\* the loops run one pass at a time build what the constructor builds
ClassDataStepsAgree == pc = "built" => out = ClassDataItem(data)

----------------------------------------------------------------------------
(* Claims about class data (SpecClassData) *)

\* int(delta) of a record of the k-th sequence
MemberDelta(rec, k) ==
    NatOf(IntOfUleb(IF k <= 2 THEN rec.field_idx_diff ELSE rec.method_idx_diff))

\* delta_1 + ... + delta_i of the records of the k-th sequence
RECURSIVE DeltaSum(_, _, _)
DeltaSum(list, k, i) ==
    IF i = 0 THEN 0 ELSE DeltaSum(list, k, i - 1) + MemberDelta(list[i], k)

\* the table the members of the k-th sequence are looked up in
MemberTable(k) == IF k <= 2 THEN arg.field_ids ELSE arg.method_ids

\* get_field / get_method of a record of the k-th sequence
GetMember(rec, k, prev_idx) ==
    IF k <= 2 THEN get_field(rec, prev_idx, MemberTable(k))
    ELSE get_method(rec, prev_idx, MemberTable(k))

\* C15: in each of the four class-data sequences the member resolved for a
\* position is the table entry at the sum of the deltas up to that position,
\* the sum starting at 0 in each sequence: get_field / get_method called with
\* the running prev_idx gives what indexing the table with the sum gives, and
\* that is the member each line of dump_data shows.
C15_MemberIsAtSumOfDeltas ==
    pc = "dumped" =>
        \A k \in 1..4 :
            LET list == out.item[ClassDataLists[k]] IN
            /\ \A i \in 1..Len(list) :
                  GetMember(list[i], k, IntOfNat(DeltaSum(list, k, i - 1)))
                      = ListItem(MemberTable(k), IntOfNat(DeltaSum(list, k, i)))
            /\ out.dump.err = "none" =>
                  /\ Len(out.dump[ClassDataLists[k]]) = Len(list)
                  /\ \A i \in 1..Len(list) :
                        /\ DeltaSum(list, k, i) < Len(MemberTable(k))
                        /\ out.dump[ClassDataLists[k]][i].member
                               = MemberTable(k)[DeltaSum(list, k, i) + 1]

\* two fields and two methods, every delta positive, all of them dumped
C15_Witness ==
    /\ pc = "dumped"
    /\ out.dump.err = "none"
    /\ Len(out.dump.static_fields) = 2
    /\ Len(out.dump.direct_mehtods) = 2
    /\ \A i \in 1..2 : MemberDelta(out.item.static_fields[i], 1) > 0
    /\ \A i \in 1..2 : MemberDelta(out.item.direct_mehtods[i], 3) > 0

\* the sizes of the first i records of a list, summed
RECURSIVE SizeSum(_, _)
SizeSum(list, i) == IF i = 0 THEN 0 ELSE SizeSum(list, i - 1) + list[i].size

\* where the i-th record of the k-th sequence starts if the records follow the
\* four counts and one another without a gap
RECURSIVE RecordStart(_, _, _)
RecordStart(cd, k, i) ==
    IF k = 0
    THEN cd.static_fields_size.size + cd.instance_fields_size.size
         + cd.direct_mehtods_size.size + cd.virtual_methods_size.size
    ELSE (IF k = 1 THEN RecordStart(cd, 0, 0)
          ELSE RecordStart(cd, k - 1, Len(cd[ClassDataLists[k - 1]]) + 1))
         + SizeSum(cd[ClassDataLists[k]], i - 1)

\* a record of the k-th sequence is made of 2 (field) or 3 (method) varints,
\* each of at least one byte
WholeRecord(rec, k) ==
    IF k <= 2
    THEN /\ rec.field_idx_diff.size >= 1
         /\ rec.access_flags.size >= 1
         /\ rec.size = rec.field_idx_diff.size + rec.access_flags.size
    ELSE /\ rec.method_idx_diff.size >= 1
         /\ rec.access_flags.size >= 1
         /\ rec.code_off.size >= 1
         /\ rec.size = rec.method_idx_diff.size + rec.access_flags.size + rec.code_off.size

\* C19: class-data decoding reads four counts, then the sequences in the
\* order static fields, instance fields, direct methods, virtual methods;
\* each sequence ends with its declared count of records, every record starts
\* where the one before it ended, a field record is 2 varints and a method
\* record 3, and the cursor moves forward with every record (the cursor moves
\* by the size of the record, so this asks every record to have a size > 0).
C19_ClassDataLayout ==
    pc \in {"loops", "built"} =>
        /\ \A k \in 1..4 :
              LET list == out[ClassDataLists[k]] IN
              /\ Len(list) <= ClassDataDeclared(out, k)
              /\ pc = "built" => Len(list) = ClassDataDeclared(out, k)
              /\ list # <<>> =>
                    \A j \in 1..(k - 1) :
                        Len(out[ClassDataLists[j]]) = ClassDataDeclared(out, j)
              /\ \A i \in 1..Len(list) :
                    /\ WholeRecord(list[i], k)
                    /\ list[i] = IF k <= 2
                                 THEN EncodedField(PyFrom(data, RecordStart(out, k, i)))
                                 ELSE EncodedMethod(PyFrom(data, RecordStart(out, k, i)))
        /\ out.off = RecordStart(out, 4, Len(out.virtual_methods) + 1)

----------------------------------------------------------------------------
(* Specification SpecValue: EncodedValue(data) on a header byte and what    *)
(* follows it.  The buffers model no code.                                  *)

\* most payload bytes after the header byte
MaxPayload == 2

PayloadBytes == {0, 127, 128, 255}

ValueInputs ==
    {<<>>} \cup
    {<<b>> \o p : b \in 0..255, p \in UNION {[1..n -> PayloadBytes] : n \in 0..MaxPayload}}

InitValue ==
    /\ data \in ValueInputs
    /\ arg = <<>>
    /\ orig = data
    /\ pc = "new"
    /\ header = Pending
    /\ parser = Pending
    /\ hit = -1
    /\ uleb = Pending
    /\ out = Pending

\* EncodedValue(data)
NewEncodedValue ==
    /\ pc = "new"
    /\ out' = EncodedValue(data)
    /\ pc' = "decoded"
    /\ UNCHANGED <<data, header, parser, orig, hit, uleb, arg>>

NextValue == NewEncodedValue

SpecValue == InitValue /\ [][NextValue]_vars

\* the little-endian value of at most three bytes, sign-extended
SignedLE(p) ==
    LET u == DigitsValue(p, 1)
    IN  IF p # <<>> /\ p[Len(p)] >= 128 THEN u - 256 ^ Len(p) ELSE u

\* the width in bytes of the signed integer formats short, int and long
SignedWidth(format) == IF format = 2 THEN 2 ELSE IF format = 4 THEN 4 ELSE 8

\* the header byte of data says a signed short, int or long whose arg + 1
\* payload bytes follow it
SignedIntegerValue ==
    /\ data # <<>>
    /\ data[1] % 32 \in {2, 4, 6}
    /\ data[1] \div 32 < SignedWidth(data[1] % 32)
    /\ Len(data) = (data[1] \div 32) + 2

\* C16: for an encoded value whose format is a signed short, int or long the
\* decoder reads the arg + 1 payload bytes that follow the header byte and
\* yields their little-endian value, sign-extended (0x22 0xFF 0x7F is the
\* short 32767).
C16_SignedValueDecoded ==
    (pc = "decoded" /\ SignedIntegerValue) =>
        /\ out.err = "none"
        /\ out.value = <<SignedLE(Tail(data))>>

\* C20: for every header byte b that decodes, the format tag is b & 0x1f and
\* the size/arg field is (b >> 5) & 0x7, so the arg does not depend on the
\* low 5 bits of b.
C20_HeaderByteSplit ==
    (pc = "decoded" /\ out.err = "none") =>
        /\ out.value_type = data[1] % 32
        /\ out.value_arg = data[1] \div 32

----------------------------------------------------------------------------
(* Claims about the order of the header checks (Spec) and about the size a  *)
(* varint reports (SpecUleb)                                                *)

\* the checks of the header in the order the format lists them
CheckOrder ==
    <<"magic", "padding", "checksum", "signature", "file_size", "header_size",
      "endian_tag">>

\* buffer d violates the i-th check, taken by itself
Violates(d, i) ==
    CASE i = 1 -> PySlice(d, 0, 4) # MAGIC
      [] i = 2 -> ~(Len(d) >= 8 /\ d[8] = 0)
      [] i = 3 -> ~ChecksumMatches(d)
      [] i = 4 -> ~SignatureMatches(d)
      [] i = 5 -> ~FileSizeMatches(d)
      [] i = 6 -> ~HeaderSizeMatches(d)
      [] i = 7 -> EndiannessOf(IntFromBytes(PySlice(d, 40, 44))) = ""

\* the first check d violates, 0 when it violates none
FirstViolated(d) ==
    IF \E i \in 1..7 : Violates(d, i)
    THEN CHOOSE i \in 1..7 : Violates(d, i) /\ \A j \in 1..(i - 1) : ~Violates(d, j)
    ELSE 0

\* C17: header validation applies its checks in the order magic, padding,
\* checksum, signature, file size, header size, endianness tag and stops at
\* the first that fails: the failure reported is the structural error of the
\* earliest check the buffer violates, whatever later checks it violates too,
\* and a buffer that violates none yields a header.
C17_FirstViolatedCheckReported ==
    header # Pending =>
        IF FirstViolated(data) = 0 THEN header.err = "none"
        ELSE header = Raise("BadDexFileError", CheckOrder[FirstViolated(data)])

\* C18: on every varint decode that succeeds the size reported is the position
\* of the first byte with the high bit clear plus 1, lies in 1..5 and is
\* never 0, and the bytes from that size on are the bytes that follow the
\* varint.
C18_SizeIsTerminatorPlusOne ==
    (pc \in {"decoded", "converted"} /\ uleb.err = "none") =>
        /\ uleb.size \in 1..5
        /\ uleb.size = FirstClear(data, 0) + 1
        /\ uleb.data = SubSeq(data, 1, uleb.size)
        /\ uleb.data[uleb.size] < 128

----------------------------------------------------------------------------
(* Specification SpecAnnotations: the annotation directory of a class       *)
(* definition, decoded at its annotations_off.  The buffers model no code.  *)

\* most entries declared for each of the three lists of a directory
MaxAnnotated == 2

\* the k-th 8-byte entry of an image: a member index, then an offset
AnnotationEntry(k) == LE32(k) \o LE32(100 + k)

\* a directory that declares f field, m method and p parameter entries,
\* followed by its f + m + p entries
DirectoryImage(c, f, m, p) ==
    LE32(c) \o LE32(f) \o LE32(m) \o LE32(p)
    \o Flatten([k \in 1..(f + m + p) |-> AnnotationEntry(k)])

DirectoryOffsets == {3, 8}

DirectoryInputs ==
    {<<off, Repeat(<<255>>, off) \o DirectoryImage(c, f, m, p) \o rest>> :
        off \in DirectoryOffsets, c \in {0, 40},
        f \in 0..MaxAnnotated, m \in 0..MaxAnnotated, p \in 0..MaxAnnotated,
        rest \in {<<>>, <<7, 7, 7>>}}

InitAnnotations ==
    /\ \E in \in DirectoryInputs :
          /\ arg = IntOfNat(in[1])
          /\ data = in[2]
    /\ orig = data
    /\ pc = "new"
    /\ header = Pending
    /\ parser = Pending
    /\ hit = -1
    /\ uleb = Pending
    /\ out = Pending

\* class_def.get_annotations_annotation_directory_item(data), for a class
\* definition whose annotations_off is arg
GetAnnotations ==
    /\ pc = "new"
    /\ out' = get_annotations_annotation_directory_item([annotations_off |-> arg], data)
    /\ pc' = "resolved"
    /\ UNCHANGED <<data, header, parser, orig, hit, uleb, arg>>

NextAnnotations == GetAnnotations

SpecAnnotations == InitAnnotations /\ [][NextAnnotations]_vars

\* the bytes of the directory: the buffer from the offset on
DirectoryBytes == PyFrom(data, NatOf(arg))

\* the i-th of the three 32-bit counts of the directory
DeclaredCount(i) == NatOf(IntFromBytes(PySlice(DirectoryBytes, 4 * i, 4 * i + 4)))

\* the pair (member index, annotation set offset) of the 8 bytes at start
PairAt(start) ==
    [field_idx       |-> IntFromBytes(PySlice(DirectoryBytes, start, start + 4)),
     annotations_off |-> IntFromBytes(PySlice(DirectoryBytes, start + 4, start + 8))]

\* list holds the pairs of n contiguous 8-byte entries, the first at start
PairsFrom(list, start, n) ==
    /\ Len(list) = n
    /\ \A k \in 1..n : list[k] = PairAt(start + 8 * (k - 1))

\* C21: decoding an annotation directory at a given offset succeeds for any
\* three declared counts, non-zero method and parameter counts included, and
\* yields three sequences of (member index, annotation set offset) pairs whose
\* lengths are the field, method and parameter counts, read from contiguous
\* 8-byte entries: fields from byte 16, methods right after the last field
\* entry, parameters right after the last method entry.
C21_DirectoryDecoded ==
    pc = "resolved" =>
        /\ out.err = "none"
        /\ PairsFrom(out.item.field_annotations, 16, DeclaredCount(1))
        /\ PairsFrom(out.item.method_annotations, 16 + 8 * DeclaredCount(1),
                     DeclaredCount(2))
        /\ PairsFrom(out.item.parameter_annotations,
                     16 + 8 * (DeclaredCount(1) + DeclaredCount(2)), DeclaredCount(3))

============================================================================
